---- MODULE Spec2Model ----
(***************************************************************************)
(* NexTicket server (src/index.js): the Express handlers that mutate the   *)
(* users, tickets, bookings and transactions collections, modelled as a    *)
(* state machine over the MongoDB store.  A collection is a function from  *)
(* the _id (or the email, for users) of each stored document to the        *)
(* fields the handlers read or write.  A handler that awaits one store     *)
(* operation is one action; a handler that awaits several is one action    *)
(* per store operation, run by a request slot whose pc is the await it is  *)
(* suspended at, so that other requests interleave between its writes.     *)
(***************************************************************************)
EXTENDS Integers, FiniteSets, Sequences, TLC

\* ---------------------------------------------------------------- bounds
MaxTickets == 1        \* tickets POST /api/tickets may create (booking runs)
MaxBookings == 2       \* bookings POST /api/bookings may create
MaxPays == 2           \* pay requests that may be started
NumProcs == 2          \* requests in flight at once
AdvTickets == 7        \* tickets of the advertisement runs
AdvSeeded == 4         \* of which already advertised at the start
MaxTransactions == 2   \* transactions POST /api/transactions may save
GrantTickets == 2      \* tickets of the grant runs

\* ------------------------------------------------------ program constants
MaxAdvertised == 6     \* src/index.js:742  advertisedCount >= 6

\* ----------------------------------------------------------------- inputs
Procs == 1..NumProcs
TicketQtys == {5}                      \* quantity of a created ticket
BookingQtys == {3}                     \* bookingQuantity of a created booking
TxnIds == {"tx1"}                      \* transactionId of a pay request
Vendors == {"v1", "v2"}                \* users with role vendor
Emails == Vendors \cup {"u1"}          \* u1 has role user
AdvTargets == (AdvSeeded + 1)..AdvTickets  \* ticket ids the admin requests name
Decisions == {"approved", "rejected", "pending"}   \* pending: not a decision
FraudTargets == Emails \cup {"x1"}     \* x1 is no user at all
RoleTargets == {"u1"}                  \* users the admin changes the role of
Roles == {"user", "vendor", "owner"}   \* owner: not a role
UserFraudTargets == {"v1", "u1", "x1"} \* emails of the fraud requests of the user runs
BodyStatuses == {"pending", "accepted", "paid"}  \* status a booking body may carry
\* bodies of POST /api/tickets: the second one also carries the two fields
\* the handler sets itself
TicketBodies ==
  {[vendorEmail |-> "v1", quantity |-> 5],
   [vendorEmail |-> "v2", quantity |-> 5, verificationStatus |-> "approved",
    isAdvertised |-> TRUE]}
\* bodies of PATCH /api/tickets/:id
UpdateBodies ==
  {[quantity |-> 9],
   [quantity |-> 0, verificationStatus |-> "rejected"],
   [_id |-> 2, verificationStatus |-> "pending", isAdvertised |-> TRUE,
    vendorEmail |-> "v2"]}

\* HTTP status codes the handlers answer with (code 0: no response yet)
OK == 200              \* res.json(...) without res.status
Created == 201
BadRequest == 400
NotFound == 404
ServerError == 500

VARIABLES
  users,         \* email -> [role, isFraud]
  tickets,       \* _id -> [vendorEmail, quantity, verificationStatus, isAdvertised]
  bookings,      \* _id -> [ticketId, bookingQuantity, status, transactionId]
  transactions,  \* _id -> [bookingId]
  nextId,        \* [ticket, booking]: ids handed out so far (ObjectIds are never reused)
  procs,         \* request slot -> [pc, op, id, email, txn, booking, found, code]
  resp,          \* response of the last single-operation handler: [op, code]
  hist           \* history, not program state: see below

vars == <<users, tickets, bookings, transactions, nextId, procs, resp, hist>>

(***************************************************************************)
(* hist is bookkeeping for the properties, never read by an action's guard *)
(* or its effect on the store:                                             *)
(*   dec[b]   times the ticket quantity was decremented for booking b      *)
(*   pays     pay requests started so far (bounds the runs)                *)
(***************************************************************************)
NoBooking == [ticketId |-> 0, bookingQuantity |-> 0, status |-> "none"]

IdleProc == [pc |-> "idle", op |-> "none", id |-> 0, email |-> "", txn |-> "",
             booking |-> NoBooking, found |-> FALSE, code |-> 0]

\* A slot whose handler has answered: its locals are gone, the response stays.
Answer(op, code) == [IdleProc EXCEPT !.op = op, !.code = code]

\* ================================================================== users

\* PATCH /api/users/:email/role: updateOne({email}, {$set: {role, updatedAt}})
SetRole(email, role) ==
  /\ IF role \notin {"user", "vendor", "admin"}
       THEN /\ users' = users
            /\ resp' = [op |-> "setRole", code |-> BadRequest]
       ELSE IF email \in DOMAIN users
         THEN /\ users' = [users EXCEPT ![email].role = role]
              /\ resp' = [op |-> "setRole", code |-> OK]
         ELSE /\ users' = users
              /\ resp' = [op |-> "setRole", code |-> NotFound]
  /\ UNCHANGED <<tickets, bookings, transactions, nextId, procs, hist>>

\* POST /api/users up to the answer of users.findOne({email}).
SaveUserFind(p, email) ==
  /\ procs[p].pc = "idle"
  /\ procs' = [procs EXCEPT ![p] =
       [IdleProc EXCEPT !.pc = "user_write", !.op = "saveUser", !.email = email,
                        !.found = (email \in DOMAIN users)]]
  /\ UNCHANGED <<users, tickets, bookings, transactions, nextId, resp, hist>>

\* ... and its write: an existing user gets name and photoURL set (fields
\* no handler here reads), a new one is inserted with role user and isFraud
\* false.  users holds the first document of each email, the one findOne and
\* updateOne address: a second document of an email changes nothing here.
SaveUserWrite(p) ==
  /\ procs[p].pc = "user_write"
  /\ users' = IF procs[p].found \/ procs[p].email \in DOMAIN users
                THEN users
                ELSE (procs[p].email :> [role |-> "user", isFraud |-> FALSE]) @@ users
  /\ procs' = [procs EXCEPT ![p] =
       Answer("saveUser", IF procs[p].found THEN OK ELSE Created)]
  /\ UNCHANGED <<tickets, bookings, transactions, nextId, resp, hist>>

\* ================================================================ tickets

\* The object literal {...obj, k: v, ...}: the fields of obj, those named
\* after the spread added or overwritten.
Spread(obj, over) ==
  [f \in DOMAIN obj \cup DOMAIN over |-> IF f \in DOMAIN over THEN over[f] ELSE obj[f]]

\* POST /api/tickets: the body's fields, then verificationStatus and
\* isAdvertised overwritten.
NewTicket(body) ==
  Spread(body, [verificationStatus |-> "pending", isAdvertised |-> FALSE])

\* POST /api/tickets with the given body.
CreateTicketWith(body) ==
  /\ nextId.ticket < MaxTickets
  /\ LET id == nextId.ticket + 1
     IN  /\ tickets' = (id :> NewTicket(body)) @@ tickets
         /\ nextId' = [nextId EXCEPT !.ticket = id]
         /\ resp' = [op |-> "createTicket", code |-> Created]
  /\ UNCHANGED <<users, bookings, transactions, procs, hist>>

\* ... with the body the vendor's form sends.
CreateTicket ==
  \E v \in Vendors, q \in TicketQtys :
    CreateTicketWith([vendorEmail |-> v, quantity |-> q])

\* DELETE /api/tickets/:id
DeleteTicket(id) ==
  /\ IF id \in DOMAIN tickets
       THEN /\ tickets' = [t \in DOMAIN tickets \ {id} |-> tickets[t]]
            /\ resp' = [op |-> "deleteTicket", code |-> OK]
       ELSE /\ tickets' = tickets
            /\ resp' = [op |-> "deleteTicket", code |-> NotFound]
  /\ UNCHANGED <<users, bookings, transactions, nextId, procs, hist>>

\* The fields PATCH /api/tickets/:id deletes from the body.
Protected == {"_id", "verificationStatus", "isAdvertised", "vendorEmail"}

\* The deletion written for the _id alone.
StripProtected_IdOnly(body) == [f \in DOMAIN body \ {"_id"} |-> body[f]]

StripProtected(body) == [f \in DOMAIN body \ Protected |-> body[f]]

\* $set: every field of upd replaces or adds the document's field.
ApplySet(doc, upd) ==
  [f \in DOMAIN doc \cup DOMAIN upd |-> IF f \in DOMAIN upd THEN upd[f] ELSE doc[f]]

\* PATCH /api/tickets/:id: updateOne({_id}, {$set: {...updateData, updatedAt}})
UpdateTicket(id, body) ==
  /\ IF id \in DOMAIN tickets
       THEN /\ tickets' = [tickets EXCEPT ![id] = ApplySet(@, StripProtected(body))]
            /\ resp' = [op |-> "updateTicket", code |-> OK]
       ELSE /\ tickets' = tickets
            /\ resp' = [op |-> "updateTicket", code |-> NotFound]
  /\ UNCHANGED <<users, bookings, transactions, nextId, procs, hist>>

\* ================================================================ bookings

\* POST /api/bookings: the body as sent, plus createdAt.  A booking without
\* the field transactionId is written with transactionId "none".
NewBooking(body) ==
  [f \in DOMAIN body \cup {"transactionId"} |->
     IF f \in DOMAIN body THEN body[f] ELSE "none"]

CreateBooking(body) ==
  /\ nextId.booking < MaxBookings
  /\ LET id == nextId.booking + 1
     IN  /\ bookings' = (id :> NewBooking(body)) @@ bookings
         /\ nextId' = [nextId EXCEPT !.booking = id]
         /\ hist' = [hist EXCEPT !.dec = (id :> 0) @@ hist.dec]
         /\ resp' = [op |-> "createBooking", code |-> Created]
  /\ UNCHANGED <<users, tickets, transactions, procs>>

\* updateOne({_id: id}, {$set: {status: st}}) on bookings: the filter is the
\* _id alone.
SetBookingStatus(bs, id, st) ==
  IF id \in DOMAIN bs THEN [bs EXCEPT ![id].status = st] ELSE bs

\* PATCH /api/bookings/:id/accept
Accept(id) ==
  /\ bookings' = SetBookingStatus(bookings, id, "accepted")
  /\ resp' = [op |-> "accept", code |-> IF id \in DOMAIN bookings THEN OK ELSE NotFound]
  /\ UNCHANGED <<users, tickets, transactions, nextId, procs, hist>>

\* PATCH /api/bookings/:id/reject
Reject(id) ==
  /\ bookings' = SetBookingStatus(bookings, id, "rejected")
  /\ resp' = [op |-> "reject", code |-> IF id \in DOMAIN bookings THEN OK ELSE NotFound]
  /\ UNCHANGED <<users, tickets, transactions, nextId, procs, hist>>

\* -------------------------------------------- PATCH /api/bookings/:id/pay
PayPcs == {"pay_update", "pay_inc"}

\* const booking = await bookings.findOne({_id})
PayFind(p, id, txn) ==
  /\ procs[p].pc = "idle"
  /\ hist.pays < MaxPays
  /\ IF id \in DOMAIN bookings
       THEN procs' = [procs EXCEPT ![p] =
              [pc |-> "pay_update", op |-> "pay", id |-> id, email |-> "", txn |-> txn,
               booking |-> [ticketId |-> bookings[id].ticketId,
                            bookingQuantity |-> bookings[id].bookingQuantity,
                            status |-> bookings[id].status],
               found |-> FALSE, code |-> 0]]
       ELSE procs' = [procs EXCEPT ![p] = Answer("pay", NotFound)]
  /\ hist' = [hist EXCEPT !.pays = @ + 1]
  /\ UNCHANGED <<users, tickets, bookings, transactions, nextId, resp>>

\* The booking update of pay: $set status, transactionId, paidAt.
MarkPaid(bs, id, txn) ==
  IF id \in DOMAIN bs
    THEN [bs EXCEPT ![id].status = "paid", ![id].transactionId = txn]
    ELSE bs

\* await bookings.updateOne({_id}, {$set: {status: 'paid', transactionId, paidAt}})
PayUpdateBooking(p) ==
  /\ procs[p].pc = "pay_update"
  /\ bookings' = MarkPaid(bookings, procs[p].id, procs[p].txn)
  /\ procs' = [procs EXCEPT ![p].pc = "pay_inc"]
  /\ UNCHANGED <<users, tickets, transactions, nextId, resp, hist>>

\* The ticket update of pay: $inc quantity by -booking.bookingQuantity.
DecQuantity(ts, tid, n) ==
  IF tid \in DOMAIN ts THEN [ts EXCEPT ![tid].quantity = @ - n] ELSE ts

\* await tickets.updateOne({_id: booking.ticketId}, {$inc: ...}); res.json(success)
PayIncTicket(p) ==
  /\ procs[p].pc = "pay_inc"
  /\ tickets' = DecQuantity(tickets, procs[p].booking.ticketId,
                            procs[p].booking.bookingQuantity)
  /\ procs' = [procs EXCEPT ![p] = Answer("pay", OK)]
  /\ hist' = [hist EXCEPT !.dec[procs[p].id] =
                IF procs[p].booking.ticketId \in DOMAIN tickets THEN @ + 1 ELSE @]
  /\ UNCHANGED <<users, bookings, transactions, nextId, resp>>

\* The first awaited store operation of a handler run by a slot (pay,
\* advertise, fraud, saveUser) rejects: the catch block answers 500 and
\* nothing was written.
StoreFailureAtStart(p, op) ==
  /\ procs[p].pc = "idle"
  /\ op = "pay" => hist.pays < MaxPays
  /\ procs' = [procs EXCEPT ![p] = Answer(op, ServerError)]
  /\ hist' = IF op = "pay" THEN [hist EXCEPT !.pays = @ + 1] ELSE hist
  /\ UNCHANGED <<users, tickets, bookings, transactions, nextId, resp>>

\* The one store operation of a single-operation handler rejects: the catch
\* block answers 500 and nothing was written.
HandlerFailure(op) ==
  /\ resp' = [op |-> op, code |-> ServerError]
  /\ UNCHANGED <<users, tickets, bookings, transactions, nextId, procs, hist>>

\* A later awaited store operation rejects (or the connection drops): the
\* catch block answers 500 and nothing already written is undone.
StoreFailure(p) ==
  /\ procs[p].pc # "idle"
  /\ procs' = [procs EXCEPT ![p] = Answer(procs[p].op, ServerError)]
  /\ UNCHANGED <<users, tickets, bookings, transactions, nextId, resp, hist>>

\* ============================================================ transactions

\* POST /api/transactions: the body as sent, plus createdAt.
NewTransaction(body) == [bookingId |-> body.bookingId]

CreateTransaction(body) ==
  /\ Cardinality(DOMAIN transactions) < MaxTransactions
  /\ LET id == Cardinality(DOMAIN transactions) + 1
     IN  transactions' = (id :> NewTransaction(body)) @@ transactions
  /\ resp' = [op |-> "createTransaction", code |-> Created]
  /\ UNCHANGED <<users, tickets, bookings, nextId, procs, hist>>

\* =========================================================== verification

\* updateOne({_id}, {$set: {verificationStatus, verifiedAt}}): the filter is
\* the _id alone and isAdvertised is not in the $set.
SetVerification(ts, id, st) ==
  IF id \in DOMAIN ts THEN [ts EXCEPT ![id].verificationStatus = st] ELSE ts

\* PATCH /api/tickets/:id/verify
Verify(id, st) ==
  /\ IF st \notin {"approved", "rejected"}
       THEN /\ tickets' = tickets
            /\ resp' = [op |-> "verify", code |-> BadRequest]
       ELSE /\ tickets' = SetVerification(tickets, id, st)
            /\ resp' = [op |-> "verify",
                        code |-> IF id \in DOMAIN tickets THEN OK ELSE NotFound]
  /\ UNCHANGED <<users, bookings, transactions, nextId, procs, hist>>

\* ========================================================== advertisement

\* countDocuments({isAdvertised: true, verificationStatus: 'approved'})
AdvertisedCount(ts) ==
  Cardinality({t \in DOMAIN ts :
                 ts[t].isAdvertised /\ ts[t].verificationStatus = "approved"})

\* The filter written with the _id alone.
AdvertiseMatches_IdOnly(ts, id) == id \in DOMAIN ts

\* The filter of the advertise update: the _id and verificationStatus approved.
AdvertiseMatches(ts, id) ==
  id \in DOMAIN ts /\ ts[id].verificationStatus = "approved"

\* updateOne({_id, verificationStatus: 'approved'}, {$set: {isAdvertised, advertisedAt}})
SetAdvertised(ts, id, flag) ==
  IF AdvertiseMatches(ts, id) THEN [ts EXCEPT ![id].isAdvertised = flag] ELSE ts

\* PATCH /api/tickets/:id/advertise with isAdvertised = true, up to the
\* answer of countDocuments.
AdvertiseCount(p, id) ==
  /\ procs[p].pc = "idle"
  /\ procs' = [procs EXCEPT ![p] =
       IF AdvertisedCount(tickets) >= MaxAdvertised
         THEN Answer("advertise", BadRequest)
         ELSE [IdleProc EXCEPT !.pc = "adv_update", !.op = "advertise", !.id = id]]
  /\ UNCHANGED <<users, tickets, bookings, transactions, nextId, resp, hist>>

\* ... and its updateOne and response.
AdvertiseUpdate(p) ==
  /\ procs[p].pc = "adv_update"
  /\ tickets' = SetAdvertised(tickets, procs[p].id, TRUE)
  /\ procs' = [procs EXCEPT ![p] =
       Answer("advertise", IF AdvertiseMatches(tickets, procs[p].id) THEN OK ELSE NotFound)]
  /\ UNCHANGED <<users, bookings, transactions, nextId, resp, hist>>

\* PATCH /api/tickets/:id/advertise with isAdvertised = false: no count,
\* the updateOne alone.
Unadvertise(id) ==
  /\ tickets' = SetAdvertised(tickets, id, FALSE)
  /\ resp' = [op |-> "unadvertise",
              code |-> IF AdvertiseMatches(tickets, id) THEN OK ELSE NotFound]
  /\ UNCHANGED <<users, bookings, transactions, nextId, procs, hist>>

\* ================================================================== fraud

\* The filter written without the role.
FraudMatches_NoRole(us, email) == email \in DOMAIN us

\* The filter of the fraud user update: {email, role: 'vendor'}.
FraudMatches(us, email) == email \in DOMAIN us /\ us[email].role = "vendor"

\* SetFraud written as a toggle of the flag.
SetFraud_Toggle(us, email) ==
  IF FraudMatches(us, email) THEN [us EXCEPT ![email].isFraud = ~@] ELSE us

\* users.updateOne({email, role: 'vendor'}, {$set: {isFraud: true, updatedAt}})
SetFraud(us, email) ==
  IF FraudMatches(us, email) THEN [us EXCEPT ![email].isFraud = TRUE] ELSE us

\* tickets.updateMany({vendorEmail: email}, {$set: {verificationStatus: 'rejected'}})
RejectVendorTickets(ts, email) ==
  [t \in DOMAIN ts |->
     IF ts[t].vendorEmail = email
       THEN [ts[t] EXCEPT !.verificationStatus = "rejected"]
       ELSE ts[t]]

\* PATCH /api/users/:email/fraud up to the answer of users.updateOne.
FraudUser(p, email) ==
  /\ procs[p].pc = "idle"
  /\ users' = SetFraud(users, email)
  /\ procs' = [procs EXCEPT ![p] =
       IF FraudMatches(users, email)
         THEN [IdleProc EXCEPT !.pc = "fraud_tickets", !.op = "fraud", !.email = email]
         ELSE Answer("fraud", NotFound)]
  /\ UNCHANGED <<tickets, bookings, transactions, nextId, resp, hist>>

\* ... and its tickets.updateMany and response.
FraudTickets(p) ==
  /\ procs[p].pc = "fraud_tickets"
  /\ tickets' = RejectVendorTickets(tickets, procs[p].email)
  /\ procs' = [procs EXCEPT ![p] = Answer("fraud", OK)]
  /\ UNCHANGED <<users, bookings, transactions, nextId, resp, hist>>

\* The whole handler run with no other request in between and no store
\* failure: the store it reaches from (us, ts).
FraudCascade(us, ts, email) ==
  IF FraudMatches(us, email)
    THEN [users |-> SetFraud(us, email), tickets |-> RejectVendorTickets(ts, email)]
    ELSE [users |-> us, tickets |-> ts]

\* ============================================================ booking runs
NoResp == [op |-> "none", code |-> 0]

InitHist == [dec |-> <<>>, pays |-> 0]

\* The collections of tickets, bookings and transactions are empty; the
\* users are those POST /api/users and PATCH /api/users/:email/role leave:
\* two vendors and one plain user.  Request ids are well-formed ObjectIds
\* (the 400 of ObjectId.isValid writes nothing and is left out).
Init ==
  /\ users = [e \in Emails |->
                [role |-> IF e \in Vendors THEN "vendor" ELSE "user", isFraud |-> FALSE]]
  /\ tickets = <<>>
  /\ bookings = <<>>
  /\ transactions = <<>>
  /\ nextId = [ticket |-> 0, booking |-> 0]
  /\ procs = [p \in Procs |-> IdleProc]
  /\ resp = NoResp
  /\ hist = InitHist

BookingIds == 1..MaxBookings
TicketIds == 1..MaxTickets

\* The client of the booking runs sends well-formed bodies: status pending.
Next ==
  \/ CreateTicket
  \/ \E id \in TicketIds : DeleteTicket(id)
  \/ \E t \in TicketIds, q \in BookingQtys :
       CreateBooking([ticketId |-> t, bookingQuantity |-> q, status |-> "pending"])
  \/ \E id \in BookingIds : Accept(id)
  \/ \E id \in BookingIds : Reject(id)
  \/ \E p \in Procs, id \in BookingIds, txn \in TxnIds : PayFind(p, id, txn)
  \/ \E p \in Procs : PayUpdateBooking(p)
  \/ \E p \in Procs : PayIncTicket(p)
  \/ \E p \in Procs : StoreFailure(p)
  \/ \E p \in Procs : StoreFailureAtStart(p, "pay")
  \/ \E op \in {"createTicket", "deleteTicket", "createBooking", "accept", "reject"} :
       HandlerFailure(op)

Spec == Init /\ [][Next]_vars

\* The same store, the client sending any status in a booking body, with or
\* without a transactionId, and saving transactions by POST /api/transactions
\* as it likes.
BookingBodies ==
  {[ticketId |-> t, bookingQuantity |-> q, status |-> s] :
     t \in TicketIds, q \in BookingQtys, s \in BodyStatuses}
  \cup
  {[ticketId |-> t, bookingQuantity |-> q, status |-> s, transactionId |-> x] :
     t \in TicketIds, q \in BookingQtys, s \in BodyStatuses, x \in TxnIds}

NextBody ==
  \/ CreateTicket
  \/ \E id \in TicketIds, st \in Decisions : Verify(id, st)
  \/ \E body \in BookingBodies : CreateBooking(body)
  \/ \E id \in BookingIds : Accept(id)
  \/ \E p \in Procs, id \in BookingIds, txn \in TxnIds : PayFind(p, id, txn)
  \/ \E p \in Procs : PayUpdateBooking(p)
  \/ \E p \in Procs : PayIncTicket(p)
  \/ \E b \in BookingIds : CreateTransaction([bookingId |-> b])

SpecBody == Init /\ [][NextBody]_vars

\* The vendor creating and editing tickets with any body while the admin
\* verifies and advertises them, one advertise request at a time.
NextFrame ==
  \/ \E body \in TicketBodies : CreateTicketWith(body)
  \/ \E id \in TicketIds \cup {MaxTickets + 1}, body \in UpdateBodies :
       UpdateTicket(id, body)
  \/ \E id \in TicketIds, st \in Decisions : Verify(id, st)
  \/ \E id \in TicketIds : AdvertiseCount(1, id)
  \/ AdvertiseUpdate(1)
  \/ \E id \in TicketIds : Unadvertise(id)

SpecFrame == Init /\ [][NextFrame]_vars

\* ====================================================== advertisement runs
(***************************************************************************)
(* The advertisement runs start from a store the handlers above reach:     *)
(* AdvTickets tickets, all approved by verify, the first AdvSeeded of them *)
(* advertised one request after another.  Tickets 1..AdvSeeded belong to   *)
(* vendor v2, the last one carries the email of u1 (whose role is user),   *)
(* the others belong to v1.  The admin's requests name the tickets of      *)
(* AdvTargets; the fraud requests name any email.                          *)
(***************************************************************************)
AdvTicketIds == 1..AdvTickets

InitAdv ==
  /\ users = [e \in Emails |->
                [role |-> IF e \in Vendors THEN "vendor" ELSE "user", isFraud |-> FALSE]]
  /\ tickets = [t \in AdvTicketIds |->
                  [vendorEmail |-> IF t <= AdvSeeded THEN "v2"
                                   ELSE IF t = AdvTickets THEN "u1" ELSE "v1",
                   quantity |-> 5,
                   verificationStatus |-> "approved",
                   isAdvertised |-> (t <= AdvSeeded)]]
  /\ bookings = <<>>
  /\ transactions = <<>>
  /\ nextId = [ticket |-> AdvTickets, booking |-> 0]
  /\ procs = [p \in Procs |-> IdleProc]
  /\ resp = NoResp
  /\ hist = InitHist

NextAdv ==
  \/ \E id \in AdvTargets, st \in Decisions : Verify(id, st)
  \/ \E p \in Procs, id \in AdvTargets : AdvertiseCount(p, id)
  \/ \E p \in Procs : AdvertiseUpdate(p)
  \/ \E id \in AdvTargets : Unadvertise(id)
  \/ \E p \in Procs, e \in Emails : FraudUser(p, e)
  \/ \E p \in Procs : FraudTickets(p)
  \/ \E p \in Procs : StoreFailure(p)
  \/ \E p \in Procs, op \in {"advertise", "fraud"} : StoreFailureAtStart(p, op)
  \/ \E op \in {"verify", "unadvertise"} : HandlerFailure(op)

SpecAdv == InitAdv /\ [][NextAdv]_vars

\* The same requests, each run to completion before the next one starts and
\* none failing in the store.
AllIdle == \A p \in Procs : procs[p].pc = "idle"

NextSeq ==
  \/ AllIdle /\ \E id \in AdvTargets, st \in Decisions : Verify(id, st)
  \/ AllIdle /\ \E p \in Procs, id \in AdvTargets : AdvertiseCount(p, id)
  \/ \E p \in Procs : AdvertiseUpdate(p)
  \/ AllIdle /\ \E id \in AdvTargets : Unadvertise(id)
  \/ AllIdle /\ \E p \in Procs, e \in Emails : FraudUser(p, e)
  \/ \E p \in Procs : FraudTickets(p)

SpecSeq == InitAdv /\ [][NextSeq]_vars
\* The fraud requests among the admin's verify requests, from the same store.
NextFraud ==
  \/ \E id \in AdvTargets, st \in Decisions : Verify(id, st)
  \/ \E p \in Procs, e \in FraudTargets : FraudUser(p, e)
  \/ \E p \in Procs : FraudTickets(p)
  \/ \E p \in Procs : StoreFailure(p)
  \/ \E p \in Procs : StoreFailureAtStart(p, "fraud")
  \/ HandlerFailure("verify")

SpecFraud == InitAdv /\ [][NextFraud]_vars

\* The fraud requests while users sign in (POST /api/users) and the admin
\* changes roles, from the same store.
NextUsers ==
  \/ \E e \in RoleTargets, r \in Roles : SetRole(e, r)
  \/ \E p \in Procs, e \in {"x1", "u1"} : SaveUserFind(p, e)
  \/ \E p \in Procs : SaveUserWrite(p)
  \/ \E p \in Procs, e \in UserFraudTargets : FraudUser(p, e)
  \/ \E p \in Procs : FraudTickets(p)
  \/ \E p \in Procs : StoreFailure(p)
  \/ \E p \in Procs, op \in {"fraud", "saveUser"} : StoreFailureAtStart(p, op)
  \/ HandlerFailure("setRole")

SpecUsers == InitAdv /\ [][NextUsers]_vars


\* ============================================================== grant runs
(***************************************************************************)
(* GrantTickets tickets, none advertised, each as POST /api/tickets or a   *)
(* verify request left it; advertise requests name them or a ticket that   *)
(* does not exist, while the admin goes on verifying.                      *)
(***************************************************************************)
GrantTicketIds == 1..GrantTickets

InitGrant ==
  /\ users = [e \in Emails |->
                [role |-> IF e \in Vendors THEN "vendor" ELSE "user", isFraud |-> FALSE]]
  /\ \E st \in [GrantTicketIds -> Decisions] :
       tickets = [t \in GrantTicketIds |->
                    [vendorEmail |-> "v1", quantity |-> 5,
                     verificationStatus |-> st[t], isAdvertised |-> FALSE]]
  /\ bookings = <<>>
  /\ transactions = <<>>
  /\ nextId = [ticket |-> GrantTickets, booking |-> 0]
  /\ procs = [p \in Procs |-> IdleProc]
  /\ resp = NoResp
  /\ hist = InitHist

NextGrant ==
  \/ \E id \in GrantTicketIds, st \in Decisions : Verify(id, st)
  \/ \E p \in Procs, id \in GrantTicketIds \cup {GrantTickets + 1} :
       AdvertiseCount(p, id)
  \/ \E p \in Procs : AdvertiseUpdate(p)
  \/ \E p \in Procs : StoreFailure(p)
  \/ \E p \in Procs : StoreFailureAtStart(p, "advertise")
  \/ HandlerFailure("verify")

SpecGrant == InitGrant /\ [][NextGrant]_vars

\* ================================================================== races
(***************************************************************************)
(* Two requests of one kind against a store in which one more of them fits *)
(* and two do not; each slot serves one request.                           *)
(***************************************************************************)
Fresh(p) == procs[p].pc = "idle" /\ procs[p].op = "none"

RaceQtys == {5}          \* remaining quantity of the ticket when the pays start
RaceBookingQtys == 3..5  \* each fits alone, no two fit together

\* One ticket with RaceQtys left and one accepted booking per slot; slot p
\* pays booking p.
InitPay ==
  /\ users = [e \in Emails |->
                [role |-> IF e \in Vendors THEN "vendor" ELSE "user", isFraud |-> FALSE]]
  /\ \E r \in RaceQtys :
       tickets = (1 :> [vendorEmail |-> "v1", quantity |-> r,
                        verificationStatus |-> "approved", isAdvertised |-> FALSE])
  /\ \E q \in [Procs -> RaceBookingQtys] :
       bookings = [b \in Procs |->
                     [ticketId |-> 1, bookingQuantity |-> q[b],
                      status |-> "accepted", transactionId |-> "none"]]
  /\ transactions = <<>>
  /\ nextId = [ticket |-> 1, booking |-> NumProcs]
  /\ procs = [p \in Procs |-> IdleProc]
  /\ resp = NoResp
  /\ hist = [dec |-> [b \in Procs |-> 0], pays |-> 0]

NextPay ==
  \/ \E p \in Procs, txn \in TxnIds : Fresh(p) /\ PayFind(p, p, txn)
  \/ \E p \in Procs : PayUpdateBooking(p)
  \/ \E p \in Procs : PayIncTicket(p)
  \/ \E p \in Procs : StoreFailure(p)
  \/ \E p \in Procs : Fresh(p) /\ StoreFailureAtStart(p, "pay")

SpecPay == InitPay /\ [][NextPay]_vars

\* The pays of SpecPay while the vendor edits the ticket.
NextTicket ==
  \/ NextPay
  \/ \E id \in TicketIds \cup {MaxTickets + 1}, body \in UpdateBodies :
       UpdateTicket(id, body)
  \/ HandlerFailure("updateTicket")

SpecTicket == InitPay /\ [][NextTicket]_vars

\* The pays of SpecPay and fraud requests, one request per slot, the store
\* failing at any await.
NextFail ==
  \/ NextPay
  \/ \E p \in Procs, e \in Emails : Fresh(p) /\ FraudUser(p, e)
  \/ \E p \in Procs : FraudTickets(p)
  \/ \E p \in Procs : Fresh(p) /\ StoreFailureAtStart(p, "fraud")

SpecFail == InitPay /\ [][NextFail]_vars

\* All tickets approved, any MaxAdvertised - 1 of them advertised; the
\* requests name tickets that are not advertised, each a different one.
InitAdRace ==
  /\ users = [e \in Emails |->
                [role |-> IF e \in Vendors THEN "vendor" ELSE "user", isFraud |-> FALSE]]
  /\ \E A \in SUBSET AdvTicketIds :
       /\ Cardinality(A) = MaxAdvertised - 1
       /\ tickets = [t \in AdvTicketIds |->
                       [vendorEmail |-> IF t <= AdvSeeded THEN "v2"
                                        ELSE IF t = AdvTickets THEN "u1" ELSE "v1",
                        quantity |-> 5,
                        verificationStatus |-> "approved",
                        isAdvertised |-> (t \in A)]]
  /\ bookings = <<>>
  /\ transactions = <<>>
  /\ nextId = [ticket |-> AdvTickets, booking |-> 0]
  /\ procs = [p \in Procs |-> IdleProc]
  /\ resp = NoResp
  /\ hist = InitHist

NextAdRace ==
  \/ \E p \in Procs, id \in AdvTicketIds :
       /\ Fresh(p)
       /\ ~tickets[id].isAdvertised
       /\ \A q \in Procs : procs[q].pc = "adv_update" => procs[q].id # id
       /\ AdvertiseCount(p, id)
  \/ \E p \in Procs : AdvertiseUpdate(p)
  \/ \E p \in Procs : StoreFailure(p)
  \/ \E p \in Procs : Fresh(p) /\ StoreFailureAtStart(p, "advertise")

SpecAdRace == InitAdRace /\ [][NextAdRace]_vars

\* ============================================================== properties
\* The spec's error kinds as the HTTP layer of its section 6 presents them;
\* SlotPoolFull also as the 400 the advertise handler answers when full.
InsufficientStock == {409}
InvalidTransition == {400}
SlotPoolFull == {400, 409}

NoPayInProgress == \A p \in Procs : procs[p].pc \notin PayPcs

\* C1: whenever no pay request is in progress, a booking is paid if and only
\* if its ticket's quantity was decremented on its behalf.
C1_PaidIffDecremented ==
  NoPayInProgress =>
    \A b \in DOMAIN bookings : (bookings[b].status = "paid") <=> (hist.dec[b] >= 1)

\* C2: the remaining quantity of every ticket is never negative.
C2_QuantityNonNegative ==
  \A t \in DOMAIN tickets : tickets[t].quantity >= 0

AllAnswered(op) ==
  \A p \in Procs :
    procs[p].pc = "idle" /\ procs[p].op = op /\ procs[p].code # ServerError

\* C3: two concurrent pays of two accepted bookings that fit the remaining
\* quantity one at a time but not together: once both are answered (the
\* store not failing), exactly one succeeded, the other was refused with
\* InsufficientStock, and the remaining quantity is the initial one minus
\* the successful booking's quantity.
C3_ExactlyOnePaySucceeds ==
  AllAnswered("pay") =>
    \E p \in Procs :
      /\ procs[p].code = OK
      /\ \A q \in Procs \ {p} : procs[q].code \in InsufficientStock
      /\ \E r \in RaceQtys : tickets[1].quantity = r - bookings[p].bookingQuantity

\* A write of the pay request of slot p.
PayWrite(p) == PayUpdateBooking(p) \/ PayIncTicket(p)

Understocked(b) ==
  /\ b \in DOMAIN bookings
  /\ bookings[b].status = "accepted"
  /\ bookings[b].ticketId \in DOMAIN tickets
  /\ bookings[b].bookingQuantity > tickets[bookings[b].ticketId].quantity

\* C4: a pay on an accepted booking that asks for more than its ticket has
\* left writes nothing (booking, ticket, transactions) and is answered
\* InsufficientStock.
C4_InsufficientStockNoWrite ==
  [][\A p \in Procs :
       (PayWrite(p) /\ Understocked(procs[p].id)) =>
         /\ bookings' = bookings
         /\ tickets' = tickets
         /\ transactions' = transactions
         /\ procs'[p].code \in InsufficientStock]_vars

\* C5: with the requests run one after another, at most MaxAdvertised tickets
\* are advertised and approved.
C5_SlotPoolBoundSequential ==
  AdvertisedCount(tickets) <= MaxAdvertised

\* C6: with one slot left and two concurrent advertise requests for two
\* different approved, unadvertised tickets, the advertised count never
\* exceeds MaxAdvertised and, once both are answered (the store not failing),
\* exactly one succeeded and the other was refused with SlotPoolFull.
C6_ExactlyOneGrantSucceeds ==
  /\ AdvertisedCount(tickets) <= MaxAdvertised
  /\ AllAnswered("advertise") =>
       \E p \in Procs :
         /\ procs[p].code = OK
         /\ \A q \in Procs \ {p} : procs[q].code \in SlotPoolFull

\* C7: an advertised ticket is an approved ticket.
C7_AdvertisedOnlyIfApproved ==
  \A t \in DOMAIN tickets :
    tickets[t].isAdvertised => tickets[t].verificationStatus = "approved"

\* The fraud request of slot p is answered with success in this step.
FraudSucceeds(p) ==
  procs[p].pc = "fraud_tickets" /\ procs'[p].pc = "idle" /\ procs'[p].code = OK

\* C8: when a fraud cascade on a vendor succeeds, every ticket of that vendor
\* is rejected and not advertised.
C8_FraudRejectsAndRevokes ==
  [][\A p \in Procs :
       FraudSucceeds(p) =>
         \A t \in DOMAIN tickets' :
           tickets'[t].vendorEmail = procs[p].email =>
             /\ tickets'[t].verificationStatus = "rejected"
             /\ ~tickets'[t].isAdvertised]_vars

\* C9: in every store state and for every email, the fraud cascade run twice
\* in a row leaves the users and tickets the first run left (it writes
\* nothing else).
C9_FraudIdempotent ==
  \A e \in Emails :
    LET once == FraudCascade(users, tickets, e)
        twice == FraudCascade(once.users, once.tickets, e)
    IN  twice = once

\* A cascade on a vendor has succeeded and its effect is in the store: the
\* vendor is flagged, its tickets (one of them advertised before) rejected.
C9_Witness ==
  \E p \in Procs, e \in Vendors :
    /\ procs[p].pc = "idle" /\ procs[p].op = "fraud" /\ procs[p].code = OK
    /\ users[e].isFraud
    /\ \E t \in DOMAIN tickets : tickets[t].vendorEmail = e /\ tickets[t].isAdvertised
    /\ \A t \in DOMAIN tickets :
         tickets[t].vendorEmail = e => tickets[t].verificationStatus = "rejected"
    /\ FraudCascade(users, tickets, e) = [users |-> users, tickets |-> tickets]

\* An accept or reject request on booking id is answered in this step.
Decide(id) == Accept(id) \/ Reject(id)

\* C10: an accept or reject of a booking that is not pending is answered
\* InvalidTransition and leaves the bookings as they were, and a paid or
\* rejected booking never changes status again.
C10_DecideOnlyFromPending ==
  [][/\ \A id \in DOMAIN bookings :
          (Decide(id) /\ bookings[id].status # "pending") =>
            (resp'.code \in InvalidTransition /\ bookings' = bookings)
     /\ \A id \in DOMAIN bookings :
          bookings[id].status \in {"paid", "rejected"} =>
            bookings'[id].status = bookings[id].status]_vars

\* C11: a pay request that found its booking in a status other than accepted
\* writes neither the bookings nor the tickets and is answered
\* InvalidTransition, and a booking becomes paid only from accepted.
C11_PayOnlyFromAccepted ==
  [][/\ \A p \in Procs :
          (PayWrite(p) /\ procs[p].booking.status # "accepted") =>
            /\ bookings' = bookings
            /\ tickets' = tickets
            /\ procs'[p].code \in InvalidTransition
     /\ \A b \in DOMAIN bookings :
          (bookings[b].status # "paid" /\ bookings'[b].status = "paid") =>
            bookings[b].status = "accepted"]_vars

\* C12: at most one transaction refers to any booking, and a transaction
\* refers only to a booking that exists and is paid.
C12_OneTransactionPerPaidBooking ==
  /\ \A x, y \in DOMAIN transactions :
       transactions[x].bookingId = transactions[y].bookingId => x = y
  /\ \A x \in DOMAIN transactions :
       /\ transactions[x].bookingId \in DOMAIN bookings
       /\ bookings[transactions[x].bookingId].status = "paid"

\* C13: whatever pay requests name a booking, its ticket's quantity is
\* decremented for it at most once.
C13_DecrementedAtMostOnce ==
  \A b \in DOMAIN bookings : hist.dec[b] <= 1

\* C14: a verify request changes the verificationStatus of no ticket that is
\* not pending (approved, rejected by verify or by the fraud cascade).
C14_VerifyOnlyFromPending ==
  [][\A id \in DOMAIN tickets, st \in Decisions :
       (Verify(id, st) /\ tickets[id].verificationStatus # "pending") =>
         tickets'[id].verificationStatus = tickets[id].verificationStatus]_vars

\* C15: the quantity of an existing ticket changes only in the step in which
\* a pay request decrements it and is answered with success.
C15_QuantityOnlyByPay ==
  [][\A t \in DOMAIN tickets \cap DOMAIN tickets' :
       tickets'[t].quantity # tickets[t].quantity =>
         \E p \in Procs : PayIncTicket(p) /\ procs'[p].code = OK]_vars

\* C16: an unadvertise request on an existing ticket is answered with success
\* and leaves the ticket not advertised, whatever its verificationStatus.
C16_RevokeUnconditional ==
  [][\A id \in DOMAIN tickets :
       Unadvertise(id) => (resp'.code = OK /\ ~tickets'[id].isAdvertised)]_vars

\* C17: a pay answered with a store failure has left its booking accepted and
\* unpaid and the ticket not decremented for it; and as long as no fraud
\* request has succeeded or is between its two writes, no user is flagged and
\* no ticket has lost its approval.
C17_NoPartialMutation ==
  /\ \A p \in Procs :
       (procs[p].pc = "idle" /\ procs[p].op = "pay" /\ procs[p].code = ServerError) =>
         /\ bookings[p].status = "accepted"
         /\ bookings[p].transactionId = "none"
         /\ hist.dec[p] = 0
  /\ (\A p \in Procs :
        /\ procs[p].pc # "fraud_tickets"
        /\ ~(procs[p].op = "fraud" /\ procs[p].code = OK)) =>
       /\ \A e \in DOMAIN users : ~users[e].isFraud
       /\ \A t \in DOMAIN tickets : tickets[t].verificationStatus = "approved"

\* C18: a fraud request for an email that is not an existing user with role
\* vendor is answered 404 at once and changes no user and no ticket, whatever
\* tickets carry that email as vendorEmail.
C18_FraudOnNonVendor ==
  [][\A p \in Procs, e \in FraudTargets :
       (FraudUser(p, e) /\ (e \notin DOMAIN users \/ users[e].role # "vendor")) =>
         /\ users' = users
         /\ tickets' = tickets
         /\ procs'[p].pc = "idle"
         /\ procs'[p].code = NotFound]_vars

\* A fraud request was answered 404, no vendor is flagged, and a ticket that
\* carries the email of a user who is no vendor is still approved.
C18_Witness ==
  /\ \E p \in Procs :
       procs[p].pc = "idle" /\ procs[p].op = "fraud" /\ procs[p].code = NotFound
  /\ \A e \in DOMAIN users : ~users[e].isFraud
  /\ \E t \in DOMAIN tickets :
       /\ tickets[t].vendorEmail \in DOMAIN users
       /\ users[tickets[t].vendorEmail].role # "vendor"
       /\ tickets[t].verificationStatus = "approved"

\* C19: the write of an advertise request for a ticket that does not exist or
\* is not approved fails and leaves every isAdvertised flag as it was, and a
\* flag goes from false to true only on a ticket approved in that step's
\* starting state.
C19_GrantOnlyIfApproved ==
  [][/\ \A p \in Procs :
          (/\ AdvertiseUpdate(p)
           /\ \/ procs[p].id \notin DOMAIN tickets
              \/ tickets[procs[p].id].verificationStatus # "approved") =>
            /\ procs'[p].code = NotFound
            /\ \A t \in DOMAIN tickets :
                 tickets'[t].isAdvertised = tickets[t].isAdvertised
     /\ \A t \in DOMAIN tickets :
          (~tickets[t].isAdvertised /\ tickets'[t].isAdvertised) =>
            tickets[t].verificationStatus = "approved"]_vars

\* One advertise request was refused with 404 and a pending ticket is not
\* advertised, another succeeded and an approved ticket is advertised.
C19_Witness ==
  /\ \E p \in Procs :
       procs[p].pc = "idle" /\ procs[p].op = "advertise" /\ procs[p].code = NotFound
  /\ \E p \in Procs :
       procs[p].pc = "idle" /\ procs[p].op = "advertise" /\ procs[p].code = OK
  /\ \E t \in DOMAIN tickets :
       tickets[t].verificationStatus = "pending" /\ ~tickets[t].isAdvertised
  /\ \E t \in DOMAIN tickets :
       tickets[t].verificationStatus = "approved" /\ tickets[t].isAdvertised

\* C20: every booking POST /api/bookings creates is pending and refers to a
\* ticket that exists and is approved when the booking is created.
C20_BookingCreatedPendingOnApproved ==
  [][\A b \in DOMAIN bookings' \ DOMAIN bookings :
       /\ bookings'[b].status = "pending"
       /\ bookings'[b].ticketId \in DOMAIN tickets
       /\ tickets[bookings'[b].ticketId].verificationStatus = "approved"]_vars

\* C21: every ticket POST /api/tickets stores is pending and not advertised
\* whatever its body carries, and PATCH /api/tickets/:id leaves the
\* verificationStatus, isAdvertised and vendorEmail of every ticket as they
\* were whatever its body carries.
C21_TicketBodyFrame ==
  [][/\ \A t \in DOMAIN tickets' \ DOMAIN tickets :
          /\ tickets'[t].verificationStatus = "pending"
          /\ ~tickets'[t].isAdvertised
     /\ \A id \in TicketIds \cup {MaxTickets + 1}, body \in UpdateBodies :
          UpdateTicket(id, body) =>
            \A t \in DOMAIN tickets :
              /\ t \in DOMAIN tickets'
              /\ tickets'[t].verificationStatus = tickets[t].verificationStatus
              /\ tickets'[t].isAdvertised = tickets[t].isAdvertised
              /\ tickets'[t].vendorEmail = tickets[t].vendorEmail]_vars

\* The ticket created from the body that carried approved and advertised
\* was approved and advertised by the admin, and the update whose body sets
\* quantity 0 and verificationStatus rejected has been answered with success:
\* the ticket has quantity 0 and is still approved and advertised.
C21_Witness ==
  /\ resp = [op |-> "updateTicket", code |-> OK]
  /\ \E t \in DOMAIN tickets :
       /\ tickets[t].vendorEmail = "v2"
       /\ tickets[t].quantity = 0
       /\ tickets[t].verificationStatus = "approved"
       /\ tickets[t].isAdvertised

====
